---- MODULE Spec2Model ----
(***************************************************************************)
(* Model of qmk-gui's language-server supervision core:                    *)
(*   cmd.CmdCloser            the child process, its streams, its watchdog *)
(*   lsp.LSPManager           spawn + JSON-RPC dispatch + HandleLSPMsg     *)
(*   lsp.LSPNotifications     the backgroundIndexDone channel              *)
(*   lsp.LSPDocumentCollection  didOpen/didClose bookkeeping               *)
(*   clangdlsp.ClangdServer   the Initialize double decode                 *)
(* Each component has its own next-state relation over the shared state;   *)
(* every one of them starts with NewLSPManager.                            *)
(***************************************************************************)
EXTENDS Integers, Sequences, FiniteSets, TLC

\* ------------------------------------------------------------------ bounds
\* How many times Close() is called on one CmdCloser.
MaxClose == 2
\* How many times LSPDocumentCollection.Open / CloseAll are called.
MaxOpens == 3
MaxCloseAll == 2
\* How many requests/notifications the server pushes to the client.
MaxMsgs == 2
\* How many documents a collection holds when CloseAll is studied on its own.
MaxDocs == 2
\* How many times LSPDocument.Close is called directly.
MaxDocClose == 2
\* How many Read, Write and ReadStderr calls are made on the streams.
MaxIO == 2
\* How many bytes the child writes to its stderr.
MaxBytes == 3

\* ------------------------------------------------------------------ state
VARIABLES
    mgr,            \* NewLSPManager: "none" (not called), "ok", "failed"
    spawnLog,       \* steps NewCmdCloser completed, in order
    doneFires,      \* how many times ctx.Done() went from open to closed
    procState,      \* child process: "none", "running", "exited"
    watchdogPc,     \* watchdog goroutine: "none", "select", "cancel", "done"
    waitPc,         \* its helper goroutine: "none", "wait", "send", "done"
    serveStarted,   \* conn.Go(ctx, manager.HandleLSPMsg) was started
    closeCalls,     \* number of Close() calls made
    closeAttempts,  \* per stream: how many times its Close() was invoked
    closeFailing,   \* streams whose Close() returned an error in the last call
    closeRet,       \* what the last Close() returned: "none", "nil" or the stream named in the error
    streamClosed,   \* the streams whose parent end is closed
    spawnFailAt,    \* the step at which NewCmdCloser was made to fail ("unset" before the call)
    documents,      \* LSPDocumentCollection.documents of the manager's docColl (URIs)
    wire,           \* didOpen/didClose notifications handed to the server, in order
    opened,         \* URIs of the Open calls that returned nil, in order
    openCalls,      \* number of LSPDocumentCollection.Open calls made
    closeAllCalls,  \* number of CloseAll calls made
    lastCloseAll,   \* the last CloseAll: what it sent, the URIs its error names, what had been opened
    lastOpen,       \* the last Open that returned: its uri, inputs, error and the documents before it
    docCloseCalls,  \* number of direct LSPDocument.Close calls made
    opening,        \* per task: an Open in progress (its uri and its receiver copy)
    inbox,          \* messages the server wrote that the dispatch loop has not read yet
    serverSent,     \* number of requests/notifications the server pushed
    loopPc,         \* dispatch loop: "read", "send" (inside HandleLSPMsg, at the channel send), "failed"
    cur,            \* the request HandleLSPMsg was last invoked with
    handlerRet,     \* that invocation: "none", "running", "nil" or "error"
    handlerReplies, \* that invocation: number of reply() calls
    published,      \* completed sends on backgroundIndexDone
    task,           \* per caller task: "start", "recv", "ready", "calling", "replied", "failed"
    received,       \* tasks whose receive on BackgroundIndexDone() completed
    answered,       \* tasks whose call the server has answered
    cancelled,      \* the tasks whose own cancellation has fired while they waited
    initPc,         \* ClangdServer.Initialize: "idle" or "returned"
    initPayload,    \* the result payload of the server's initialize response
    initRes,        \* the *InitializeResult that Initialize returned
    initCall,       \* the inputs of that call: did the RPC succeed, did the re-marshal succeed
    initErr,        \* the error it returned: "nil", "call", "marshal", "base" or "embedded"
    mainPc,         \* main(): the call it makes next, or "returned", or "fatal"
    ioCalls,        \* number of Read, Write and ReadStderr calls made
    lastIO,         \* the last of them: its stream, what it returned, whether Done() had fired
    loggerPc,       \* the stderr logger goroutine: "none", "loop", "returned"
    stderrPipe,     \* bytes the child wrote to stderr that no read has taken yet
    written,        \* every byte the child wrote to stderr, in order
    line,           \* the logger's partial line
    emitted,        \* the lines the logger has logged, in order
    fatalAt         \* the call after which main() ended in logger.Fatal ("none": it did not)

procVars == <<mgr, spawnLog, doneFires, procState, watchdogPc, waitPc,
              serveStarted, closeCalls, closeAttempts, closeFailing, closeRet,
              spawnFailAt, streamClosed>>

docVars == <<documents, wire, opened, openCalls, closeAllCalls, lastCloseAll,
             lastOpen, docCloseCalls, opening>>

routerVars == <<inbox, serverSent, loopPc, cur, handlerRet, handlerReplies,
                published, task, received, answered, cancelled>>

initVars == <<initPc, initPayload, initRes, initErr, initCall>>

mainVars == <<mainPc, fatalAt>>

ioVars == <<ioCalls, lastIO>>

logVars == <<loggerPc, stderrPipe, written, line, emitted>>

vars == <<procVars, docVars, routerVars, initVars, mainVars, ioVars, logVars>>

nonProcVars == <<docVars, routerVars, initVars, mainVars, ioVars, logVars>>
nonDocVars == <<procVars, routerVars, initVars, mainVars, ioVars, logVars>>
nonRouterVars == <<procVars, docVars, initVars, mainVars, ioVars, logVars>>
nonInitVars == <<procVars, docVars, routerVars, mainVars, ioVars, logVars>>
nonIoVars == <<procVars, docVars, routerVars, initVars, mainVars, logVars>>
nonLogVars == <<procVars, docVars, routerVars, initVars, mainVars, ioVars>>

\* Tasks that use the connection: each may wait for the index and then calls
\* workspace/symbol.
Tasks == {"t1", "t2"}

\* protocol.MethodProgress
MethodProgress == "$/progress"

\* clangdlsp.ProgressTokenBackgroundIndexProgress
ProgressTokenBackgroundIndexProgress == "backgroundIndexProgress"

\* clangdlsp.BackgroundIndexProgressEnd
BackgroundIndexProgressEnd == "end"

NoRequest ==
    [type |-> "none", method |-> "", envelopeOk |-> TRUE, token |-> "",
     payloadOk |-> TRUE, kind |-> "", task |-> ""]

\* An inbound request or notification: its method, whether its params decode
\* as protocol.ProgressParams, its token, whether its params decode as
\* clangdlsp.BackgroundIndexProgressParams, and its value kind.
Request(method, envelopeOk, token, payloadOk, kind) ==
    [type |-> "request", method |-> method, envelopeOk |-> envelopeOk,
     token |-> token, payloadOk |-> payloadOk, kind |-> kind, task |-> ""]

\* The reply to the call of a task.
Response(t) ==
    [type |-> "response", method |-> "", envelopeOk |-> TRUE, token |-> "",
     payloadOk |-> TRUE, kind |-> "", task |-> t]

\* The inbound requests the server is taken to send.
Requests ==
    { Request("window/logMessage", TRUE, "", TRUE, ""),
      Request("window/logMessage", TRUE, ProgressTokenBackgroundIndexProgress, TRUE,
              BackgroundIndexProgressEnd),
      Request(MethodProgress, TRUE, "BackgroundIndexProgress", TRUE, BackgroundIndexProgressEnd),
      Request(MethodProgress, FALSE, "", FALSE, ""),
      Request(MethodProgress, TRUE, "symbols", TRUE, "end"),
      Request(MethodProgress, TRUE, ProgressTokenBackgroundIndexProgress, FALSE, ""),
      Request(MethodProgress, TRUE, ProgressTokenBackgroundIndexProgress, TRUE, "begin"),
      Request(MethodProgress, TRUE, ProgressTokenBackgroundIndexProgress, TRUE, "report"),
      Request(MethodProgress, TRUE, ProgressTokenBackgroundIndexProgress, TRUE,
              BackgroundIndexProgressEnd) }

URIs == {"keymap.c", "config.h"}

\* No Read, Write or ReadStderr has been called yet.
NoIO == [stream |-> "", ret |-> "none", afterDone |-> FALSE]

\* No Open has returned yet.
NoOpen == [uri |-> "", readable |-> TRUE, sendOk |-> TRUE, err |-> "none",
           before |-> <<>>, sent |-> <<>>, copy |-> <<>>]

\* No CloseAll has returned yet.
NoCloseAll == [sent |-> <<>>, errs |-> <<>>, opened |-> <<>>, coll |-> <<>>, failing |-> {}]

\* The task has no Open in progress.
NotOpening == [pc |-> "idle", uri |-> "", coll |-> <<>>]

Streams == {"stdin", "stdout", "stderr"}

\* Where NewCmdCloser can fail.
SpawnFailures == {"stdin", "stdout", "stderr", "start"}

\* ------------------------------------------------------------------ initialize payloads and results

\* The JSON value of the initialize response's result, by the shape of the
\* parts the two result structs read: the payload itself ("object", "null",
\* "other"), its "capabilities" ("absent", "object", "other"), in it
\* "astProvider" and "workspaceSymbolProvider" ("absent", "true", "false",
\* "other": a value that is no boolean), whether a capability that
\* protocol.ServerCapabilities types as a struct has that shape (std), and
\* "serverInfo" ("absent", "object", "other").
Payload(top, caps, ast, wsp, std, serverInfo) ==
    [top |-> top, caps |-> caps, ast |-> ast, wsp |-> wsp, std |-> std,
     serverInfo |-> serverInfo]

NullPayload == Payload("null", "absent", "absent", "absent", "ok", "absent")

Payloads ==
    { NullPayload, Payload("other", "absent", "absent", "absent", "ok", "absent") }
    \cup { Payload("object", caps, "absent", "absent", "ok", info) :
              caps \in {"absent", "other"}, info \in {"absent", "object", "other"} }
    \cup { Payload("object", "object", ast, wsp, std, info) :
              ast \in {"absent", "true", "false", "other"},
              wsp \in {"absent", "true", "false", "other"},
              std \in {"ok", "bad"},
              info \in {"absent", "object", "other"} }

\* No result: Initialize returned nil.
NilResult == [nil |-> TRUE, ASTProvider |-> FALSE, WorkspaceSymbolProvider |-> "nil",
              ServerInfo |-> "nil"]

\* res := InitializeResult{}
ZeroResult == [nil |-> FALSE, ASTProvider |-> FALSE, WorkspaceSymbolProvider |-> "nil",
               ServerInfo |-> "nil"]

\* ------------------------------------------------------------------ cmd.CmdCloser

\* A cancel that closes the done channel again on every call.
cancelCtxRefires(fires) == fires + 1

\* context.CancelFunc: the first call closes Done(), later calls do nothing.
cancelCtx(fires) == IF fires = 0 THEN 1 ELSE fires

\* Done() is closed once the context was cancelled.
Done == doneFires > 0

\* NewCmdCloser that forgets to cancel the context when cmd.Start() fails.
NewCmdCloserLeaky(failAt) ==
    IF failAt = "stdin" THEN
        [closer |-> FALSE, fires |-> cancelCtx(0), log |-> <<>>]
    ELSE IF failAt = "stdout" THEN
        [closer |-> FALSE, fires |-> cancelCtx(0), log |-> <<"stdin">>]
    ELSE IF failAt = "stderr" THEN
        [closer |-> FALSE, fires |-> cancelCtx(0), log |-> <<"stdin", "stdout">>]
    ELSE IF failAt = "start" THEN
        [closer |-> FALSE, fires |-> 0, log |-> <<"stdin", "stdout", "stderr">>]
    ELSE
        [closer |-> TRUE, fires |-> 0,
         log |-> <<"stdin", "stdout", "stderr", "start", "watchdog">>]

\* NewCmdCloser: attach the three pipes, start the process, start the watchdog;
\* every failure cancels the context and returns (nil, err).
\* A NewCmdCloser that returns the CmdCloser although cmd.Start() failed.
NewCmdCloserIgnoresStartError(failAt) ==
    IF failAt = "stdin" THEN
        [closer |-> FALSE, fires |-> cancelCtx(0), log |-> <<>>]
    ELSE IF failAt = "stdout" THEN
        [closer |-> FALSE, fires |-> cancelCtx(0), log |-> <<"stdin">>]
    ELSE IF failAt = "stderr" THEN
        [closer |-> FALSE, fires |-> cancelCtx(0), log |-> <<"stdin", "stdout">>]
    ELSE IF failAt = "start" THEN
        [closer |-> TRUE, fires |-> 0, log |-> <<"stdin", "stdout", "stderr", "watchdog">>]
    ELSE
        [closer |-> TRUE, fires |-> 0,
         log |-> <<"stdin", "stdout", "stderr", "start", "watchdog">>]

\* A NewCmdCloser that starts the process before it attaches the pipes.
NewCmdCloserStartsFirst(failAt) ==
    IF failAt = "start" THEN
        [closer |-> FALSE, fires |-> cancelCtx(0), log |-> <<>>]
    ELSE IF failAt = "stdin" THEN
        [closer |-> FALSE, fires |-> cancelCtx(0), log |-> <<"start">>]
    ELSE IF failAt = "stdout" THEN
        [closer |-> FALSE, fires |-> cancelCtx(0), log |-> <<"start", "stdin">>]
    ELSE IF failAt = "stderr" THEN
        [closer |-> FALSE, fires |-> cancelCtx(0), log |-> <<"start", "stdin", "stdout">>]
    ELSE
        [closer |-> TRUE, fires |-> 0,
         log |-> <<"start", "stdin", "stdout", "stderr", "watchdog">>]

NewCmdCloser(failAt) ==
    IF failAt = "stdin" THEN
        [closer |-> FALSE, fires |-> cancelCtx(0), log |-> <<>>]
    ELSE IF failAt = "stdout" THEN
        [closer |-> FALSE, fires |-> cancelCtx(0), log |-> <<"stdin">>]
    ELSE IF failAt = "stderr" THEN
        [closer |-> FALSE, fires |-> cancelCtx(0), log |-> <<"stdin", "stdout">>]
    ELSE IF failAt = "start" THEN
        [closer |-> FALSE, fires |-> cancelCtx(0), log |-> <<"stdin", "stdout", "stderr">>]
    ELSE
        [closer |-> TRUE, fires |-> 0,
         log |-> <<"stdin", "stdout", "stderr", "start", "watchdog">>]

\* Close() after cancelCtx(): the streams it tries to close and what it returns,
\* given the streams whose Close() fails.
CloseStreams(failing) ==
    IF "stdin" \in failing THEN
        [ret |-> "stdin", attempted |-> {"stdin"}]
    ELSE IF "stdout" \in failing THEN
        [ret |-> "stdout", attempted |-> {"stdin", "stdout"}]
    ELSE IF "stderr" \in failing THEN
        [ret |-> "stderr", attempted |-> {"stdin", "stdout", "stderr"}]
    ELSE
        [ret |-> "nil", attempted |-> {"stdin", "stdout", "stderr"}]

\* ------------------------------------------------------------------ initial state
Init ==
    /\ mgr = "none"
    /\ spawnLog = <<>>
    /\ doneFires = 0
    /\ procState = "none"
    /\ watchdogPc = "none"
    /\ waitPc = "none"
    /\ serveStarted = FALSE
    /\ closeCalls = 0
    /\ closeAttempts = [s \in Streams |-> 0]
    /\ closeFailing = {}
    /\ closeRet = "none"
    /\ streamClosed = {}
    /\ spawnFailAt = "unset"
    /\ documents = <<>>
    /\ wire = <<>>
    /\ opened = <<>>
    /\ openCalls = 0
    /\ closeAllCalls = 0
    /\ lastCloseAll = NoCloseAll
    /\ lastOpen = NoOpen
    /\ docCloseCalls = 0
    /\ opening = [t \in Tasks |-> NotOpening]
    /\ inbox = <<>>
    /\ serverSent = 0
    /\ loopPc = "read"
    /\ cur = NoRequest
    /\ handlerRet = "none"
    /\ handlerReplies = 0
    /\ published = 0
    /\ task = [t \in Tasks |-> "start"]
    /\ received = {}
    /\ answered = {}
    /\ cancelled = {}
    /\ initPc = "idle"
    /\ initPayload = NullPayload
    /\ initRes = NilResult
    /\ initErr = "nil"
    /\ initCall = [callOk |-> TRUE, marshalOk |-> TRUE]
    /\ mainPc = "initialize"
    /\ fatalAt = "none"
    /\ ioCalls = 0
    /\ lastIO = NoIO
    /\ loggerPc = "none"
    /\ stderrPipe = <<>>
    /\ written = <<>>
    /\ line = <<>>
    /\ emitted = <<>>

\* ------------------------------------------------------------------ lsp.NewLSPManager

\* NewLSPManager: spawn clangd through NewCmdCloser; on error return (nil, err);
\* otherwise build the manager and start the dispatch loop.
NewLSPManager(failAt) ==
    /\ mgr = "none"
    /\ LET proc == NewCmdCloser(failAt) IN
        /\ spawnLog' = proc.log
        /\ spawnFailAt' = failAt
        /\ doneFires' = proc.fires
        /\ IF proc.closer
           THEN /\ mgr' = "ok"
                /\ procState' = "running"
                /\ watchdogPc' = "select"
                /\ waitPc' = "wait"
                /\ serveStarted' = TRUE
           ELSE /\ mgr' = "failed"
                /\ UNCHANGED <<procState, watchdogPc, waitPc, serveStarted>>
    /\ UNCHANGED <<closeCalls, closeAttempts, closeFailing, closeRet>>
    /\ UNCHANGED streamClosed
    /\ UNCHANGED nonProcVars

\* ------------------------------------------------------------------ process and watchdog

\* The child stops: on its own, or killed by exec.CommandContext once ctx is done.
ProcessExit ==
    /\ procState = "running"
    /\ procState' = "exited"
    /\ UNCHANGED <<mgr, spawnLog, doneFires, watchdogPc, waitPc, serveStarted,
                   closeCalls, closeAttempts, closeFailing, closeRet, spawnFailAt>>
    /\ UNCHANGED streamClosed
    /\ UNCHANGED nonProcVars

\* exec.CommandContext(ctx, ...): once ctx is done the process is killed.
KillOnCancel ==
    /\ Done
    /\ procState = "running"
    /\ procState' = "exited"
    /\ UNCHANGED <<mgr, spawnLog, doneFires, watchdogPc, waitPc, serveStarted,
                   closeCalls, closeAttempts, closeFailing, closeRet, spawnFailAt,
                   streamClosed>>
    /\ UNCHANGED nonProcVars

\* Helper goroutine: cmd.cmd.Wait() returns, having closed the parent ends of
\* the three pipes, and the goroutine reaches its send.
WaitReturns ==
    /\ waitPc = "wait"
    /\ procState = "exited"
    /\ waitPc' = "send"
    /\ streamClosed' = Streams
    /\ UNCHANGED <<mgr, spawnLog, doneFires, procState, watchdogPc, serveStarted,
                   closeCalls, closeAttempts, closeFailing, closeRet, spawnFailAt>>
    /\ UNCHANGED nonProcVars

\* select case <-cmdWaitChan: the unbuffered send and the receive meet.
WatchdogRecvWait ==
    /\ watchdogPc = "select"
    /\ waitPc = "send"
    /\ waitPc' = "done"
    /\ watchdogPc' = "cancel"
    /\ UNCHANGED <<mgr, spawnLog, doneFires, procState, serveStarted,
                   closeCalls, closeAttempts, closeFailing, closeRet, spawnFailAt>>
    /\ UNCHANGED streamClosed
    /\ UNCHANGED nonProcVars

\* A watchdog that returns after the receive without cancelling.
WatchdogReturnsWithoutCancel ==
    /\ watchdogPc = "cancel"
    /\ watchdogPc' = "done"
    /\ UNCHANGED <<mgr, spawnLog, doneFires, procState, waitPc, serveStarted,
                   closeCalls, closeAttempts, closeFailing, closeRet, spawnFailAt,
                   streamClosed>>
    /\ UNCHANGED nonProcVars

\* ... and then cmd.cancelCtx().
WatchdogCancel ==
    /\ watchdogPc = "cancel"
    /\ doneFires' = cancelCtx(doneFires)
    /\ watchdogPc' = "done"
    /\ UNCHANGED <<mgr, spawnLog, procState, waitPc, serveStarted,
                   closeCalls, closeAttempts, closeFailing, closeRet, spawnFailAt>>
    /\ UNCHANGED streamClosed
    /\ UNCHANGED nonProcVars

\* select case <-cmd.Done(): return.
WatchdogRecvDone ==
    /\ watchdogPc = "select"
    /\ Done
    /\ watchdogPc' = "done"
    /\ UNCHANGED <<mgr, spawnLog, doneFires, procState, waitPc, serveStarted,
                   closeCalls, closeAttempts, closeFailing, closeRet, spawnFailAt>>
    /\ UNCHANGED streamClosed
    /\ UNCHANGED nonProcVars

\* CmdCloser.Close(): cancel, then close stdin, stdout, stderr, returning at the
\* first error.
Close(failing) ==
    /\ mgr = "ok"
    /\ closeCalls < MaxClose
    /\ closeCalls' = closeCalls + 1
    /\ doneFires' = cancelCtx(doneFires)
    /\ LET r == CloseStreams(failing) IN
        /\ closeAttempts' = [s \in Streams |->
                                IF s \in r.attempted THEN closeAttempts[s] + 1
                                ELSE closeAttempts[s]]
        /\ closeRet' = r.ret
        /\ streamClosed' = streamClosed \cup r.attempted
    /\ closeFailing' = failing
    /\ UNCHANGED <<mgr, spawnLog, procState, watchdogPc, waitPc, serveStarted,
                   spawnFailAt>>
    /\ UNCHANGED nonProcVars

\* CmdCloser.Pid(): cmd.cmd.Process.Pid. Process is nil until cmd.Start()
\* has succeeded.
Pid == IF "start" \in {spawnLog[i] : i \in 1..Len(spawnLog)} THEN "pid" ELSE "nil dereference"

\* ------------------------------------------------------------------ cmd.CmdCloser: Read, Write, ReadStderr

\* What a call on stream s returns. A closed stream returns an error. On an
\* open stream of a running process the call succeeds. After the process is
\* gone a write fails, and a read returns what is still buffered or, with
\* nothing buffered, the end-of-file error.
StreamOp(s, closed, proc, buffered) ==
    IF s \in closed THEN "error"
    ELSE IF proc = "running" THEN "ok"
    ELSE IF s = "stdin" THEN "error"
    ELSE IF buffered THEN "ok"
    ELSE "error"

\* Write(p) on stdin, Read(p) on stdout or ReadStderr(p) on stderr.
StreamIO(s, buffered) ==
    /\ mgr = "ok"
    /\ ioCalls < MaxIO
    /\ ioCalls' = ioCalls + 1
    /\ lastIO' = [stream |-> s, ret |-> StreamOp(s, streamClosed, procState, buffered),
                  afterDone |-> Done]
    /\ UNCHANGED nonIoVars

\* ------------------------------------------------------------------ the stderr logger goroutine

\* The NUL byte.
NUL == "NUL"

\* The bytes the child writes to stderr: an ordinary byte or a newline. The
\* NUL bytes the logger meets are those of its buffer.
Bytes == {"a", "\n"}

\* make([]byte, 2048) filled by one read: the bytes read, then the NUL bytes
\* the read left untouched. The buffer is longer than all the child writes.
BuffLen == MaxBytes + 1
stderrBuff(chunk) == chunk \o [i \in 1..(BuffLen - Len(chunk)) |-> NUL]

RECURSIVE SplitCharsEmitsEmpty(_, _)
\* A loop that logs a line at every newline, an empty one too.
SplitCharsEmitsEmpty(ln, decoded) ==
    IF decoded = <<>> THEN [line |-> ln, emitted |-> <<>>]
    ELSE LET c == Head(decoded) IN
         IF c = NUL THEN SplitCharsEmitsEmpty(ln, Tail(decoded))
         ELSE IF c = "\n" THEN
             LET r == SplitCharsEmitsEmpty(<<>>, Tail(decoded))
             IN [line |-> r.line, emitted |-> <<ln>> \o r.emitted]
         ELSE SplitCharsEmitsEmpty(Append(ln, c), Tail(decoded))

RECURSIVE SplitChars(_, _)
\* The loop over the characters of string(stderrBuff): a NUL is skipped; a
\* newline ends a non-empty line, which is logged; a newline on an empty line
\* is skipped; any other character is added to the line.
SplitChars(ln, decoded) ==
    IF decoded = <<>> THEN [line |-> ln, emitted |-> <<>>]
    ELSE LET c == Head(decoded) IN
         IF c = NUL THEN SplitChars(ln, Tail(decoded))
         ELSE IF c = "\n" /\ Len(ln) > 0 THEN
             LET r == SplitChars(<<>>, Tail(decoded))
             IN [line |-> r.line, emitted |-> <<ln>> \o r.emitted]
         ELSE IF c # "\n" THEN SplitChars(Append(ln, c), Tail(decoded))
         ELSE SplitChars(ln, Tail(decoded))

\* go func() { ... }(): main() starts the logger after the spawn.
StartStderrLogger ==
    /\ mgr = "ok"
    /\ loggerPc = "none"
    /\ loggerPc' = "loop"
    /\ UNCHANGED <<stderrPipe, written, line, emitted>>
    /\ UNCHANGED nonLogVars

\* The child writes one byte to its stderr.
ChildWrite(c) ==
    /\ procState = "running"
    /\ Len(written) < MaxBytes
    /\ written' = Append(written, c)
    /\ stderrPipe' = Append(stderrPipe, c)
    /\ UNCHANGED <<loggerPc, line, emitted>>
    /\ UNCHANGED nonLogVars

\* cmd.ReadStderr(stderrBuff) can return: the stream is closed or the process
\* is gone (n = 0 and an error), or the pipe holds bytes. Otherwise it blocks.
ReadReturns == "stderr" \in streamClosed \/ stderrPipe # <<>> \/ procState # "running"

\* What a returning ReadStderr does to the logger: with n = 0 nothing but the
\* logged error; with n > 0 the buffer is split into lines.
ReadAndSplit ==
    IF "stderr" \in streamClosed \/ stderrPipe = <<>>
    THEN UNCHANGED <<stderrPipe, line, emitted>>
    ELSE LET r == SplitChars(line, stderrBuff(stderrPipe)) IN
         /\ stderrPipe' = <<>>
         /\ line' = r.line
         /\ emitted' = emitted \o r.emitted

\* case <-ticker.C: one ReadStderr into a fresh buffer; the logger stays in
\* the read while it blocks.
LoggerTick ==
    /\ loggerPc = "loop"
    /\ IF ReadReturns
       THEN ReadAndSplit /\ UNCHANGED loggerPc
       ELSE loggerPc' = "reading" /\ UNCHANGED <<stderrPipe, line, emitted>>
    /\ UNCHANGED written
    /\ UNCHANGED nonLogVars

\* The blocked ReadStderr returns and the logger is back at its select.
LoggerReadReturns ==
    /\ loggerPc = "reading"
    /\ ReadReturns
    /\ ReadAndSplit
    /\ loggerPc' = "loop"
    /\ UNCHANGED written
    /\ UNCHANGED nonLogVars

\* A logger that flushes on done and goes on looping.
LoggerDoneKeepsLooping ==
    /\ loggerPc = "loop"
    /\ Done
    /\ emitted' = IF Len(line) > 0 THEN Append(emitted, line) ELSE emitted
    /\ line' = <<>>
    /\ UNCHANGED <<loggerPc, stderrPipe, written>>
    /\ UNCHANGED nonLogVars

\* case <-proc.Done(): flush the partial line and return.
LoggerDone ==
    /\ loggerPc = "loop"
    /\ Done
    /\ emitted' = IF Len(line) > 0 THEN Append(emitted, line) ELSE emitted
    /\ loggerPc' = "returned"
    /\ UNCHANGED <<stderrPipe, written, line>>
    /\ UNCHANGED nonLogVars

\* ------------------------------------------------------------------ lsp.LSPDocument

\* An Open that calls DidOpen whether or not the file could be read.
LSPDocumentOpenSendsUnread(uri, readable, sendOk) ==
    [err |-> IF ~readable THEN "read" ELSE IF ~sendOk THEN "didOpen" ELSE "nil",
     sent |-> <<[method |-> "didOpen", uri |-> uri, ok |-> sendOk]>>]

\* LSPDocument.Open: read the file, then DidOpen. Returns the error (or "nil")
\* and the notifications handed to the server.
LSPDocumentOpen(uri, readable, sendOk) ==
    IF ~readable THEN
        [err |-> "read", sent |-> <<>>]
    ELSE IF ~sendOk THEN
        [err |-> "didOpen", sent |-> <<[method |-> "didOpen", uri |-> uri, ok |-> FALSE]>>]
    ELSE
        [err |-> "nil", sent |-> <<[method |-> "didOpen", uri |-> uri, ok |-> TRUE]>>]

\* LSPDocument.Close: DidClose for the document's URI.
LSPDocumentClose(uri, sendOk) ==
    [err |-> IF sendOk THEN "nil" ELSE "didClose",
     sent |-> <<[method |-> "didClose", uri |-> uri, ok |-> sendOk]>>]

\* ------------------------------------------------------------------ lsp.LSPDocumentCollection

\* Open and CloseAll are declared on the value LSPDocumentCollection, not on a
\* pointer: the method works on a copy, and the caller's struct (its slice
\* header, of length and capacity 0 at construction) is what it was before the call.
ValueReceiver(caller, callee) == caller

\* An Open that records the document whether or not doc.Open succeeded.
CollectionOpenRecordsFailed(coll, uri, readable, sendOk) ==
    LET r == LSPDocumentOpen(uri, readable, sendOk) IN
    [err |-> r.err, sent |-> r.sent, coll |-> Append(coll, uri)]

\* LSPDocumentCollection.Open, on the receiver copy coll: the error, what was
\* sent, and the copy's documents when the method returns.
CollectionOpen(coll, uri, readable, sendOk) ==
    LET r == LSPDocumentOpen(uri, readable, sendOk) IN
    [err |-> r.err,
     sent |-> r.sent,
     coll |-> IF r.err = "nil" THEN Append(coll, uri) ELSE coll]

RECURSIVE CloseEachStopsAtFirstError(_, _, _)
\* A loop that returns at the first failed close.
CloseEachStopsAtFirstError(coll, failing, i) ==
    IF i > Len(coll) THEN [sent |-> <<>>, errs |-> <<>>]
    ELSE LET r == LSPDocumentClose(coll[i], i \notin failing) IN
         IF r.err # "nil" THEN [sent |-> r.sent, errs |-> <<coll[i]>>]
         ELSE LET rest == CloseEachStopsAtFirstError(coll, failing, i + 1)
              IN [sent |-> r.sent \o rest.sent, errs |-> rest.errs]

RECURSIVE CloseEach(_, _, _)
\* The loop of CloseAll from index i on: every document is closed, the failures
\* are collected.
CloseEach(coll, failing, i) ==
    IF i > Len(coll) THEN [sent |-> <<>>, errs |-> <<>>]
    ELSE LET r == LSPDocumentClose(coll[i], i \notin failing)
             rest == CloseEach(coll, failing, i + 1)
         IN [sent |-> r.sent \o rest.sent,
             errs |-> IF r.err = "nil" THEN rest.errs ELSE <<coll[i]>> \o rest.errs]

\* LSPDocumentCollection.CloseAll: nil (errs empty) or one error joining the failures.
CollectionCloseAll(coll, failing) == CloseEach(coll, failing, 1)

\* docColl.Open(ctx, uri)
Open(uri, readable, sendOk) ==
    /\ mgr = "ok"
    /\ openCalls < MaxOpens
    /\ openCalls' = openCalls + 1
    /\ LET r == CollectionOpen(documents, uri, readable, sendOk) IN
        /\ documents' = ValueReceiver(documents, r.coll)
        /\ wire' = wire \o r.sent
        /\ opened' = IF r.err = "nil" THEN Append(opened, uri) ELSE opened
        /\ lastOpen' = [uri |-> uri, readable |-> readable, sendOk |-> sendOk,
                        err |-> r.err, before |-> documents, sent |-> r.sent,
                        copy |-> r.coll]
    /\ UNCHANGED <<closeAllCalls, lastCloseAll, docCloseCalls, opening>>
    /\ UNCHANGED nonDocVars

\* A CloseAll that forgets the documents it closed.
CloseAllDrains(failing) ==
    /\ mgr = "ok"
    /\ closeAllCalls < MaxCloseAll
    /\ closeAllCalls' = closeAllCalls + 1
    /\ LET r == CloseEach(documents, failing, 1) IN
        /\ wire' = wire \o r.sent
        /\ lastCloseAll' = [sent |-> r.sent, errs |-> r.errs, opened |-> opened,
                            coll |-> documents, failing |-> failing]
    /\ documents' = <<>>
    /\ UNCHANGED <<opened, openCalls, lastOpen, docCloseCalls, opening>>
    /\ UNCHANGED nonDocVars

\* docColl.CloseAll(ctx); the didClose of the documents at the positions in
\* failing returns an error.
CloseAll(failing) ==
    /\ mgr = "ok"
    /\ closeAllCalls < MaxCloseAll
    /\ closeAllCalls' = closeAllCalls + 1
    /\ LET r == CollectionCloseAll(documents, failing) IN
        /\ wire' = wire \o r.sent
        /\ lastCloseAll' = [sent |-> r.sent, errs |-> r.errs, opened |-> opened,
                            coll |-> documents, failing |-> failing]
    /\ UNCHANGED <<documents, opened, openCalls, lastOpen, docCloseCalls, opening>>
    /\ UNCHANGED nonDocVars

NextDocuments ==
    \/ \E failAt \in SpawnFailures \cup {"none"} : NewLSPManager(failAt)
    \/ \E uri \in URIs, readable \in BOOLEAN, sendOk \in BOOLEAN :
          Open(uri, readable, sendOk)
    \/ \E failing \in SUBSET (1..Len(documents)) : CloseAll(failing)

SpecDocuments == Init /\ [][NextDocuments]_vars

\* ------------------------------------------------------------------ the collection as a value

\* The collections the methods are applied to: every list of at most MaxDocs documents.
Collections == UNION {[1..n -> URIs] : n \in 0..MaxDocs}

\* The didOpen notifications that recorded the documents of coll.
OpenedWire(coll) == [i \in 1..Len(coll) |-> [method |-> "didOpen", uri |-> coll[i], ok |-> TRUE]]

\* A collection value holding any of the Collections, its server connected to
\* a running process.
InitCollection ==
    /\ mgr = "ok"
    /\ spawnLog = NewCmdCloser("none").log
    /\ doneFires = 0
    /\ procState = "running"
    /\ watchdogPc = "select"
    /\ waitPc = "wait"
    /\ serveStarted = TRUE
    /\ closeCalls = 0
    /\ closeAttempts = [s \in Streams |-> 0]
    /\ closeFailing = {}
    /\ closeRet = "none"
    /\ streamClosed = {}
    /\ spawnFailAt = "none"
    /\ documents \in Collections
    /\ wire = OpenedWire(documents)
    /\ opened = documents
    /\ openCalls = 0
    /\ closeAllCalls = 0
    /\ lastCloseAll = NoCloseAll
    /\ lastOpen = NoOpen
    /\ docCloseCalls = 0
    /\ opening = [t \in Tasks |-> NotOpening]
    /\ inbox = <<>>
    /\ serverSent = 0
    /\ loopPc = "read"
    /\ cur = NoRequest
    /\ handlerRet = "none"
    /\ handlerReplies = 0
    /\ published = 0
    /\ task = [t \in Tasks |-> "start"]
    /\ received = {}
    /\ answered = {}
    /\ cancelled = {}
    /\ initPc = "idle"
    /\ initPayload = NullPayload
    /\ initRes = NilResult
    /\ initErr = "nil"
    /\ initCall = [callOk |-> TRUE, marshalOk |-> TRUE]
    /\ mainPc = "initialize"
    /\ fatalAt = "none"
    /\ ioCalls = 0
    /\ lastIO = NoIO
    /\ loggerPc = "none"
    /\ stderrPipe = <<>>
    /\ written = <<>>
    /\ line = <<>>
    /\ emitted = <<>>

\* doc.Close(ctx) called directly, each time on the same document: the first
\* of the collection.
DocumentClose(sendOk) ==
    /\ mgr = "ok"
    /\ Len(documents) > 0
    /\ docCloseCalls < MaxDocClose
    /\ docCloseCalls' = docCloseCalls + 1
    /\ wire' = wire \o LSPDocumentClose(documents[1], sendOk).sent
    /\ UNCHANGED <<documents, opened, openCalls, closeAllCalls, lastCloseAll,
                   lastOpen, opening>>
    /\ UNCHANGED nonDocVars

\* Closing the documents of a collection value, all at once or one by one.
NextCollection ==
    \/ \E failing \in SUBSET (1..Len(documents)) : CloseAll(failing)
    \/ \E sendOk \in BOOLEAN : DocumentClose(sendOk)

SpecCollection == InitCollection /\ [][NextCollection]_vars

\* Opening documents on a collection value.
NextCollectionOpen ==
    \E uri \in URIs, readable \in BOOLEAN, sendOk \in BOOLEAN : Open(uri, readable, sendOk)

SpecCollectionOpen == InitCollection /\ [][NextCollectionOpen]_vars

\* ------------------------------------------------------------------ concurrent callers of the collection

\* Task t calls docColl.Open(ctx, uri): the call copies the receiver.
OpenBegin(t, uri) ==
    /\ mgr = "ok"
    /\ opening[t].pc = "idle"
    /\ openCalls < MaxOpens
    /\ openCalls' = openCalls + 1
    /\ opening' = [opening EXCEPT ![t] = [pc |-> "copied", uri |-> uri, coll |-> documents]]
    /\ UNCHANGED <<documents, wire, opened, closeAllCalls, lastCloseAll, lastOpen,
                   docCloseCalls>>
    /\ UNCHANGED nonDocVars

\* The Open of task t runs on its copy and returns.
OpenReturn(t, readable, sendOk) ==
    /\ opening[t].pc = "copied"
    /\ LET r == CollectionOpen(opening[t].coll, opening[t].uri, readable, sendOk) IN
        /\ documents' = ValueReceiver(documents, r.coll)
        /\ wire' = wire \o r.sent
        /\ opened' = IF r.err = "nil" THEN Append(opened, opening[t].uri) ELSE opened
        /\ lastOpen' = [uri |-> opening[t].uri, readable |-> readable, sendOk |-> sendOk,
                        err |-> r.err, before |-> documents, sent |-> r.sent,
                        copy |-> r.coll]
    /\ opening' = [opening EXCEPT ![t] = NotOpening]
    /\ UNCHANGED <<openCalls, closeAllCalls, lastCloseAll, docCloseCalls>>
    /\ UNCHANGED nonDocVars

NextConcurrent ==
    \/ \E failAt \in SpawnFailures \cup {"none"} : NewLSPManager(failAt)
    \/ \E t \in Tasks, uri \in URIs : OpenBegin(t, uri)
    \/ \E t \in Tasks, readable \in BOOLEAN, sendOk \in BOOLEAN : OpenReturn(t, readable, sendOk)
    \/ \E failing \in SUBSET (1..Len(documents)) : CloseAll(failing)

SpecConcurrent == Init /\ [][NextConcurrent]_vars

\* ------------------------------------------------------------------ lsp.LSPManager.HandleLSPMsg

\* A handler that publishes on every decodable background-index progress
\* message, whatever its kind.
HandleLSPMsgAnyKind(req) ==
    IF req.method = MethodProgress THEN
        IF ~req.envelopeOk THEN "error"
        ELSE IF req.token = ProgressTokenBackgroundIndexProgress THEN
            IF ~req.payloadOk THEN "error" ELSE "send"
        ELSE "reply"
    ELSE "reply"

\* HandleLSPMsg up to its first blocking point: "error" (a decode failed, the
\* handler returns the error without replying), "send" (it reached
\* backgroundIndexDone <- struct{}{}), or "reply" (it reached reply(ctx, nil, nil)).
HandleLSPMsg(req) ==
    IF req.method = MethodProgress THEN
        IF ~req.envelopeOk THEN "error"
        ELSE IF req.token = ProgressTokenBackgroundIndexProgress THEN
            IF ~req.payloadOk THEN "error"
            ELSE IF req.kind = BackgroundIndexProgressEnd THEN "send"
            ELSE "reply"
        ELSE "reply"
    ELSE "reply"

\* ------------------------------------------------------------------ server side of the connection

\* The server pushes a request or notification.
ServerSend(req) ==
    /\ serveStarted
    /\ serverSent < MaxMsgs
    /\ serverSent' = serverSent + 1
    /\ inbox' = Append(inbox, req)
    /\ UNCHANGED <<loopPc, cur, handlerRet, handlerReplies, published, task,
                   received, answered>>
    /\ UNCHANGED <<cancelled, nonRouterVars>>

\* The server answers the outstanding call of task t.
ServerReply(t) ==
    /\ serveStarted
    /\ task[t] = "calling"
    /\ t \notin answered
    /\ answered' = answered \cup {t}
    /\ inbox' = Append(inbox, Response(t))
    /\ UNCHANGED <<serverSent, loopPc, cur, handlerRet, handlerReplies, published,
                   task, received>>
    /\ UNCHANGED <<cancelled, nonRouterVars>>

\* ------------------------------------------------------------------ dispatch loop: conn.Go(ctx, manager.HandleLSPMsg)

\* The loop reads a request and calls HandleLSPMsg with it, on the loop's own
\* goroutine. The handler runs until it returns or parks at the channel send.
\* After a handler error the connection either goes on or is failed.
ServeRequest(failConn) ==
    /\ serveStarted
    /\ loopPc = "read"
    /\ inbox # <<>>
    /\ Head(inbox).type = "request"
    /\ inbox' = Tail(inbox)
    /\ cur' = Head(inbox)
    /\ LET step == HandleLSPMsg(Head(inbox)) IN
        /\ handlerRet' = CASE step = "error" -> "error"
                           [] step = "send" -> "running"
                           [] OTHER -> "nil"
        /\ handlerReplies' = IF step = "reply" THEN 1 ELSE 0
        /\ loopPc' = CASE step = "send" -> "send"
                       [] step = "error" /\ failConn -> "failed"
                       [] OTHER -> "read"
    /\ UNCHANGED <<serverSent, published, task, received, answered>>
    /\ UNCHANGED <<cancelled, nonRouterVars>>

\* The loop reads a response and hands it to the call waiting for it.
DeliverResponse ==
    /\ serveStarted
    /\ loopPc = "read"
    /\ inbox # <<>>
    /\ Head(inbox).type = "response"
    /\ inbox' = Tail(inbox)
    /\ task' = [task EXCEPT ![Head(inbox).task] = "replied"]
    /\ UNCHANGED <<serverSent, loopPc, cur, handlerRet, handlerReplies, published,
                   received, answered>>
    /\ UNCHANGED <<cancelled, nonRouterVars>>

\* A publish that wakes every parked receiver at once, as closing the channel would.
PublishReleasesAll(t) ==
    /\ loopPc = "send"
    /\ task[t] = "recv"
    /\ published' = published + 1
    /\ received' = received \cup {u \in Tasks : task[u] = "recv"}
    /\ task' = [u \in Tasks |-> IF task[u] = "recv" THEN "ready" ELSE task[u]]
    /\ handlerReplies' = handlerReplies + 1
    /\ handlerRet' = "nil"
    /\ loopPc' = "read"
    /\ UNCHANGED <<inbox, serverSent, cur, answered>>
    /\ UNCHANGED <<cancelled, nonRouterVars>>

\* backgroundIndexDone is unbuffered: the handler's send completes when a task
\* is parked in the receive; the handler then replies and returns nil.
Publish(t) ==
    /\ loopPc = "send"
    /\ task[t] = "recv"
    /\ published' = published + 1
    /\ received' = received \cup {t}
    /\ task' = [task EXCEPT ![t] = "ready"]
    /\ handlerReplies' = handlerReplies + 1
    /\ handlerRet' = "nil"
    /\ loopPc' = "read"
    /\ UNCHANGED <<inbox, serverSent, cur, answered>>
    /\ UNCHANGED <<cancelled, nonRouterVars>>

\* ------------------------------------------------------------------ tasks using the manager

\* <-BackgroundIndexDone(): the task parks in the receive.
AwaitIndex(t) ==
    /\ mgr = "ok"
    /\ task[t] = "start"
    /\ task' = [task EXCEPT ![t] = "recv"]
    /\ UNCHANGED <<inbox, serverSent, loopPc, cur, handlerRet, handlerReplies,
                   published, received, answered>>
    /\ UNCHANGED <<cancelled, nonRouterVars>>

\* The task chooses not to wait for the index.
SkipAwait(t) ==
    /\ mgr = "ok"
    /\ task[t] = "start"
    /\ task' = [task EXCEPT ![t] = "ready"]
    /\ UNCHANGED <<inbox, serverSent, loopPc, cur, handlerRet, handlerReplies,
                   published, received, answered>>
    /\ UNCHANGED <<cancelled, nonRouterVars>>

\* server.Symbols(ctx, ...): the call is written and the task blocks for the reply.
CallSymbols(t) ==
    /\ mgr = "ok"
    /\ task[t] = "ready"
    /\ loopPc # "failed"
    /\ task' = [task EXCEPT ![t] = "calling"]
    /\ UNCHANGED <<inbox, serverSent, loopPc, cur, handlerRet, handlerReplies,
                   published, received, answered>>
    /\ UNCHANGED <<cancelled, nonRouterVars>>

\* The connection failed: the outstanding call returns an error.
CallFails(t) ==
    /\ loopPc = "failed"
    /\ task[t] \in {"ready", "calling"}
    /\ task' = [task EXCEPT ![t] = "failed"]
    /\ UNCHANGED <<inbox, serverSent, loopPc, cur, handlerRet, handlerReplies,
                   published, received, answered>>
    /\ UNCHANGED <<cancelled, nonRouterVars>>

\* The cancellation of task t fires while it waits in <-backgroundIndexDone.
\* The receive is a bare channel receive: it selects on nothing else, and the
\* task stays parked in it.
CancelCaller(t) ==
    /\ mgr = "ok"
    /\ task[t] = "recv"
    /\ t \notin cancelled
    /\ cancelled' = cancelled \cup {t}
    /\ UNCHANGED <<inbox, serverSent, loopPc, cur, handlerRet, handlerReplies,
                   published, task, received, answered>>
    /\ UNCHANGED nonRouterVars

NextRouter ==
    \/ \E failAt \in SpawnFailures \cup {"none"} : NewLSPManager(failAt)
    \/ \E req \in Requests : ServerSend(req)
    \/ \E t \in Tasks : ServerReply(t)
    \/ \E failConn \in BOOLEAN : ServeRequest(failConn)
    \/ DeliverResponse
    \/ \E t \in Tasks : Publish(t)
    \/ \E t \in Tasks : AwaitIndex(t)
    \/ \E t \in Tasks : SkipAwait(t)
    \/ \E t \in Tasks : CallSymbols(t)
    \/ \E t \in Tasks : CallFails(t)
    \/ \E t \in Tasks : CancelCaller(t)

SpecRouter == Init /\ [][NextRouter]_vars

\* The goroutines of the program keep running: the dispatch loop takes the
\* next message, a send with a parked receiver completes, a task that can call
\* does, and the server answers a call. Nothing obliges the server to send a
\* notification or a task to start waiting.
FairSpecRouter ==
    /\ SpecRouter
    /\ WF_vars(\E failConn \in BOOLEAN : ServeRequest(failConn))
    /\ WF_vars(DeliverResponse)
    /\ \A t \in Tasks :
          /\ WF_vars(Publish(t))
          /\ WF_vars(CallSymbols(t))
          /\ WF_vars(CallFails(t))
          /\ WF_vars(ServerReply(t))

\* ------------------------------------------------------------------ clangdlsp.ClangdServer.Initialize

\* json.Unmarshal(marshalledRes, &res): the key "capabilities" belongs to the
\* outer field ServerCapabilities, which hides the embedded struct's field of the
\* same key; "serverInfo" is promoted from the embedded struct. Keys absent from
\* the payload leave their fields alone.
UnmarshalBase(payload, res) ==
    IF payload.top = "other" THEN [err |-> TRUE, res |-> res]
    ELSE IF payload.top = "null" THEN [err |-> FALSE, res |-> res]
    ELSE IF payload.caps = "other" \/ payload.ast = "other" \/ payload.serverInfo = "other"
        THEN [err |-> TRUE, res |-> res]
    ELSE [err |-> FALSE,
          res |-> [res EXCEPT
                     !.ASTProvider = IF payload.ast = "absent" THEN @
                                     ELSE payload.ast = "true",
                     !.ServerInfo = IF payload.serverInfo = "object" THEN "set" ELSE @]]

\* json.Unmarshal(marshalledRes, &(res.InitializeResult)): the standard shape,
\* whose WorkspaceSymbolProvider is an interface{} and takes any value.
UnmarshalEmbedded(payload, res) ==
    IF payload.top = "other" THEN [err |-> TRUE, res |-> res]
    ELSE IF payload.top = "null" THEN [err |-> FALSE, res |-> res]
    ELSE IF payload.caps = "other" \/ payload.std = "bad" \/ payload.serverInfo = "other"
        THEN [err |-> TRUE, res |-> res]
    ELSE [err |-> FALSE,
          res |-> [res EXCEPT
                     !.WorkspaceSymbolProvider = IF payload.wsp = "absent" THEN @
                                                 ELSE payload.wsp,
                     !.ServerInfo = IF payload.serverInfo = "object" THEN "set" ELSE @]]

\* Initialize with one decode only, into the outer struct.
InitializeSingleDecode(callOk, marshalOk, payload) ==
    IF ~callOk THEN [res |-> NilResult, err |-> "call"]
    ELSE IF ~marshalOk THEN [res |-> NilResult, err |-> "marshal"]
    ELSE LET base == UnmarshalBase(payload, ZeroResult) IN
         IF base.err THEN [res |-> NilResult, err |-> "base"]
         ELSE [res |-> base.res, err |-> "nil"]

\* An Initialize that hands back the half-decoded result with the error of the
\* second decode.
InitializeReturnsPartial(callOk, marshalOk, payload) ==
    IF ~callOk THEN [res |-> NilResult, err |-> "call"]
    ELSE IF ~marshalOk THEN [res |-> NilResult, err |-> "marshal"]
    ELSE LET base == UnmarshalBase(payload, ZeroResult) IN
         IF base.err THEN [res |-> NilResult, err |-> "base"]
         ELSE LET embedded == UnmarshalEmbedded(payload, base.res) IN
              IF embedded.err THEN [res |-> base.res, err |-> "embedded"]
              ELSE [res |-> embedded.res, err |-> "nil"]

\* ClangdServer.Initialize: call, re-marshal, decode into the outer struct, decode
\* into the embedded struct.
Initialize(callOk, marshalOk, payload) ==
    IF ~callOk THEN [res |-> NilResult, err |-> "call"]
    ELSE IF ~marshalOk THEN [res |-> NilResult, err |-> "marshal"]
    ELSE LET base == UnmarshalBase(payload, ZeroResult) IN
         IF base.err THEN [res |-> NilResult, err |-> "base"]
         ELSE LET embedded == UnmarshalEmbedded(payload, base.res) IN
              IF embedded.err THEN [res |-> NilResult, err |-> "embedded"]
              ELSE [res |-> embedded.res, err |-> "nil"]

\* server.Initialize(ctx, params), answered by the server with payload.
CallInitialize(callOk, marshalOk, payload) ==
    /\ mgr = "ok"
    /\ initPc = "idle"
    /\ initPc' = "returned"
    /\ initPayload' = payload
    /\ initCall' = [callOk |-> callOk, marshalOk |-> marshalOk]
    /\ LET r == Initialize(callOk, marshalOk, payload) IN
        /\ initRes' = r.res
        /\ initErr' = r.err
    /\ UNCHANGED nonInitVars

NextInitialize ==
    \/ \E failAt \in SpawnFailures \cup {"none"} : NewLSPManager(failAt)
    \/ \E callOk \in BOOLEAN, marshalOk \in BOOLEAN, payload \in Payloads :
          CallInitialize(callOk, marshalOk, payload)

SpecInitialize == Init /\ [][NextInitialize]_vars

\* ------------------------------------------------------------------ main()

\* A request or notification without a document, as logged in wire.
Msg(method, ok) == [method |-> method, uri |-> "", ok |-> ok]

\* The file main() opens.
KeymapC == "keymap.c"

\* An error that is logged and does not end the run.
LogOnError(failed, next) == next

\* if err != nil { logger.Fatal(...) }: Fatal logs and exits the process.
FatalOnError(failed, next) == IF failed THEN "fatal" ELSE next

\* A capability check that accepts a result without the AST flag.
CheckCapabilitiesIgnoresAST(res) ==
    IF res.WorkspaceSymbolProvider = "false" THEN "wsp" ELSE "nil"

\* The checks of main() on the initialize result: ASTProvider must be true;
\* WorkspaceSymbolProvider must not be the boolean false (a missing or
\* non-boolean value passes).
CheckCapabilities(res) ==
    IF ~res.ASTProvider THEN "ast"
    ELSE IF res.WorkspaceSymbolProvider = "false" THEN "wsp"
    ELSE "nil"

\* One step of main(): its frame, and where main() goes next.
MainStep(at, failed, next) ==
    /\ mainPc' = FatalOnError(failed, next)
    /\ fatalAt' = IF mainPc' = "fatal" THEN at ELSE fatalAt
    /\ UNCHANGED <<procVars, routerVars, ioVars, logVars>>

\* initRes, err := server.Initialize(...), the err check and the capability checks.
MainInitialize(callOk, marshalOk, payload) ==
    /\ mgr = "ok"
    /\ mainPc = "initialize"
    /\ LET r == Initialize(callOk, marshalOk, payload)
           next == FatalOnError(CheckCapabilities(r.res) # "nil", "initialized")
       IN
        /\ initPc' = "returned"
        /\ initPayload' = payload
        /\ initCall' = [callOk |-> callOk, marshalOk |-> marshalOk]
        /\ initRes' = r.res
        /\ initErr' = r.err
        /\ wire' = Append(wire, Msg("initialize", r.err = "nil"))
        /\ mainPc' = FatalOnError(r.err # "nil", next)
        /\ fatalAt' = IF mainPc' # "fatal" THEN fatalAt
                      ELSE IF r.err # "nil" THEN "initialize" ELSE "capabilities"
    /\ UNCHANGED <<documents, opened, openCalls, closeAllCalls, lastCloseAll,
                   lastOpen, docCloseCalls, opening>>
    /\ UNCHANGED <<procVars, routerVars, ioVars, logVars>>

\* server.Initialized(ctx, nil)
MainInitialized(ok) ==
    /\ mainPc = "initialized"
    /\ wire' = Append(wire, Msg("initialized", ok))
    /\ MainStep("initialized", ~ok, "open")
    /\ UNCHANGED <<documents, opened, openCalls, closeAllCalls, lastCloseAll,
                   lastOpen, docCloseCalls, opening>>
    /\ UNCHANGED initVars

\* docColl.Open(ctx, keymapCURI)
MainOpen(readable, sendOk) ==
    /\ mainPc = "open"
    /\ LET r == CollectionOpen(documents, KeymapC, readable, sendOk) IN
        /\ documents' = ValueReceiver(documents, r.coll)
        /\ wire' = wire \o r.sent
        /\ opened' = IF r.err = "nil" THEN Append(opened, KeymapC) ELSE opened
        /\ lastOpen' = [uri |-> KeymapC, readable |-> readable, sendOk |-> sendOk,
                        err |-> r.err, before |-> documents, sent |-> r.sent,
                        copy |-> r.coll]
        /\ MainStep("open", r.err # "nil", "await")
    /\ openCalls' = openCalls + 1
    /\ UNCHANGED <<closeAllCalls, lastCloseAll, docCloseCalls, opening>>
    /\ UNCHANGED initVars

\* <-backgroundIndexDone: the handler published the end of indexing.
MainIndexDone ==
    /\ mainPc = "await"
    /\ MainStep("await", FALSE, "symbols")
    /\ UNCHANGED <<docVars, initVars>>

\* server.Symbols(ctx, ...)
MainSymbols(ok) ==
    /\ mainPc = "symbols"
    /\ wire' = Append(wire, Msg("workspace/symbol", ok))
    /\ MainStep("symbols", ~ok, "closeAll")
    /\ UNCHANGED <<documents, opened, openCalls, closeAllCalls, lastCloseAll,
                   lastOpen, docCloseCalls, opening>>
    /\ UNCHANGED initVars

\* docColl.CloseAll(ctx)
MainCloseAll(failing) ==
    /\ mainPc = "closeAll"
    /\ closeAllCalls' = closeAllCalls + 1
    /\ LET r == CollectionCloseAll(documents, failing) IN
        /\ wire' = wire \o r.sent
        /\ lastCloseAll' = [sent |-> r.sent, errs |-> r.errs, opened |-> opened,
                            coll |-> documents, failing |-> failing]
        /\ MainStep("closeAll", r.errs # <<>>, "shutdown")
    /\ UNCHANGED <<documents, opened, openCalls, lastOpen, docCloseCalls, opening>>
    /\ UNCHANGED initVars

\* server.Shutdown(ctx)
MainShutdown(ok) ==
    /\ mainPc = "shutdown"
    /\ wire' = Append(wire, Msg("shutdown", ok))
    /\ MainStep("shutdown", ~ok, "exit")
    /\ UNCHANGED <<documents, opened, openCalls, closeAllCalls, lastCloseAll,
                   lastOpen, docCloseCalls, opening>>
    /\ UNCHANGED initVars

\* server.Exit(ctx), after which main() returns.
MainExit(ok) ==
    /\ mainPc = "exit"
    /\ wire' = Append(wire, Msg("exit", ok))
    /\ MainStep("exit", ~ok, "returned")
    /\ UNCHANGED <<documents, opened, openCalls, closeAllCalls, lastCloseAll,
                   lastOpen, docCloseCalls, opening>>
    /\ UNCHANGED initVars

NextMain ==
    \/ \E failAt \in SpawnFailures \cup {"none"} : NewLSPManager(failAt)
    \/ \E callOk \in BOOLEAN, marshalOk \in BOOLEAN, payload \in Payloads :
          MainInitialize(callOk, marshalOk, payload)
    \/ \E ok \in BOOLEAN : MainInitialized(ok)
    \/ \E readable \in BOOLEAN, sendOk \in BOOLEAN : MainOpen(readable, sendOk)
    \/ MainIndexDone
    \/ \E ok \in BOOLEAN : MainSymbols(ok)
    \/ \E failing \in SUBSET (1..Len(documents)) : MainCloseAll(failing)
    \/ \E ok \in BOOLEAN : MainShutdown(ok)
    \/ \E ok \in BOOLEAN : MainExit(ok)

SpecMain == Init /\ [][NextMain]_vars

\* ------------------------------------------------------------------ specifications

Next ==
    \/ \E failAt \in SpawnFailures \cup {"none"} : NewLSPManager(failAt)
    \/ ProcessExit
    \/ KillOnCancel
    \/ WaitReturns
    \/ WatchdogRecvWait
    \/ WatchdogCancel
    \/ WatchdogRecvDone
    \/ \E failing \in SUBSET Streams : Close(failing)

Spec == Init /\ [][Next]_vars

\* The supervisor with callers using its streams.
NextIO ==
    \/ Next
    \/ \E s \in Streams, buffered \in BOOLEAN : StreamIO(s, buffered)

SpecIO == Init /\ [][NextIO]_vars

\* The supervisor with the stderr logger and a child that writes to stderr.
NextStderr ==
    \/ Next
    \/ StartStderrLogger
    \/ \E c \in Bytes : ChildWrite(c)
    \/ LoggerTick
    \/ LoggerReadReturns
    \/ LoggerDone

SpecStderr == Init /\ [][NextStderr]_vars

\* The goroutines keep running, the kill of a cancelled command takes effect,
\* a read that can return does, and the logger's select takes its done case
\* when that case stays ready.
FairSpecStderr ==
    /\ SpecStderr
    /\ WF_vars(KillOnCancel)
    /\ WF_vars(WaitReturns)
    /\ WF_vars(WatchdogRecvWait)
    /\ WF_vars(WatchdogCancel)
    /\ WF_vars(WatchdogRecvDone)
    /\ WF_vars(LoggerReadReturns)
    /\ WF_vars(LoggerDone)

\* The goroutines of the supervisor keep running and the kill of a cancelled
\* command takes effect. Nothing obliges the process to exit on its own or a
\* caller to call Close().
FairSpec ==
    /\ Spec
    /\ WF_vars(KillOnCancel)
    /\ WF_vars(WaitReturns)
    /\ WF_vars(WatchdogRecvWait)
    /\ WF_vars(WatchdogCancel)
    /\ WF_vars(WatchdogRecvDone)

\* ------------------------------------------------------------------ claims: process supervisor

\* C1: on a spawned ServerProcess, under every interleaving of Close() calls and
\* the child exiting, Done() fires exactly once: it has fired as soon as Close()
\* was called or the watchdog finished, it has fired only through one of those
\* two, and it never fires a second time.
C1_DoneFiresExactlyOnce ==
    mgr = "ok" =>
        /\ doneFires <= 1
        /\ (closeCalls > 0 => doneFires = 1)
        /\ (watchdogPc = "done" => doneFires = 1)
        /\ (doneFires = 1 => closeCalls > 0 \/ (watchdogPc = "done" /\ waitPc = "done"))

\* C1 witness: both paths ran on one process: the watchdog saw the exit and
\* cancelled, and Close() was called twice as well.
C1_Witness ==
    /\ mgr = "ok"
    /\ procState = "exited"
    /\ watchdogPc = "done"
    /\ waitPc = "done"
    /\ closeCalls = 2
    /\ doneFires = 1

\* C9: every Close() call cancels the scope and attempts to close all three
\* streams, also when an earlier stream's close fails, and returns the first
\* error encountered.
C9_CloseAttemptsAllStreams ==
    closeCalls > 0 =>
        /\ Done
        /\ \A s \in Streams : closeAttempts[s] = closeCalls
        /\ closeRet = (IF "stdin" \in closeFailing THEN "stdin"
                       ELSE IF "stdout" \in closeFailing THEN "stdout"
                       ELSE IF "stderr" \in closeFailing THEN "stderr"
                       ELSE "nil")

\* C10: when NewCmdCloser fails at any step, no CmdCloser is returned, the scope
\* is cancelled, no process, watchdog or helper goroutine exists, and
\* NewLSPManager returns no manager and never starts the dispatch loop;
\* NewCmdCloser fails exactly when one of its steps fails.
C10_FailedSpawnReleasesAll ==
    /\ (mgr = "failed" <=> spawnFailAt \in SpawnFailures)
    /\ (mgr = "failed" =>
            /\ Done
            /\ procState = "none"
            /\ watchdogPc = "none"
            /\ waitPc = "none"
            /\ ~serveStarted
            /\ \A i \in 1..Len(spawnLog) : spawnLog[i] \notin {"start", "watchdog"})

\* C10 witness: the process start failed (a nonexistent binary) after the three
\* pipes were attached.
C10_Witness ==
    /\ mgr = "failed"
    /\ spawnFailAt = "start"
    /\ spawnLog = <<"stdin", "stdout", "stderr">>

\* The positions in spawnLog of a step of NewCmdCloser.
SpawnedAt(step) == {i \in 1..Len(spawnLog) : spawnLog[i] = step}

\* C29: in every spawn, the process is started only after the stdin, stdout
\* and stderr pipes were attached, and the watchdog only after the process
\* started; a successful spawn did all five steps, each once.
C29_PipesThenStartThenWatchdog ==
    /\ \A i \in SpawnedAt("start") :
          \A s \in Streams : \E j \in SpawnedAt(s) : j < i
    /\ \A i \in SpawnedAt("watchdog") : \E j \in SpawnedAt("start") : j < i
    /\ mgr = "ok" =>
          /\ Len(spawnLog) = 5
          /\ \A step \in Streams \cup {"start", "watchdog"} : Cardinality(SpawnedAt(step)) = 1

\* C29 witness: a spawn succeeded and its watchdog has run.
C29_Witness ==
    /\ mgr = "ok"
    /\ SpawnedAt("watchdog") # {}
    /\ watchdogPc = "done"

\* The state a stopped ServerProcess ends in: the scope cancelled once, the
\* process gone, the watchdog returned, the three streams closed.
Terminal ==
    /\ doneFires = 1
    /\ procState = "exited"
    /\ watchdogPc = "done"
    /\ streamClosed = Streams

\* C24: once the process has exited, Done() eventually fires, with or without
\* a Close() call, and the supervisor ends in the same terminal state as after
\* an explicit Close().
C24_ExitLeadsToDone ==
    /\ (procState = "exited") ~> Terminal
    /\ (closeCalls > 0) ~> Terminal

\* C24 witness: the process exited, Close() was never called, and the watchdog
\* cancelled the scope.
C24_Witness ==
    /\ closeCalls = 0
    /\ waitPc = "done"
    /\ Terminal

\* C30: once Done() has fired on a spawned ServerProcess, the helper goroutine
\* of its watchdog completes its send on cmdWaitChan and returns.
C30_WaitGoroutineTerminates ==
    (mgr = "ok" /\ Done) ~> (waitPc = "done")

\* C25: a Read, Write or ReadStderr called after Done() has fired returns an error.
C25_StreamsFailAfterCancel ==
    lastIO.afterDone => lastIO.ret = "error"

RECURSIVE Flatten(_)
\* The characters of a list of lines, in order.
Flatten(lines) == IF lines = <<>> THEN <<>> ELSE Head(lines) \o Flatten(Tail(lines))

\* C26: when the process has exited on its own and the logger has returned,
\* the logged lines hold, in order, every non-newline byte the child wrote.
C26_NoStderrOutputLost ==
    (loggerPc = "returned" /\ procState = "exited" /\ closeCalls = 0) =>
        Flatten(emitted) = SelectSeq(written, LAMBDA c : c # "\n")

\* C32: once Done() has fired, a running logger returns, and a logger that
\* has returned logs nothing more.
C32_LoggerReturnsAfterDone ==
    /\ (Done /\ loggerPc \in {"loop", "reading"}) ~> (loggerPc = "returned")
    /\ [][loggerPc = "returned" => (loggerPc' = "returned" /\ emitted' = emitted)]_vars

\* C32 witness: the logger of a silent process has returned after Close()
\* fired Done() and the process was killed.
C32_Witness ==
    /\ loggerPc = "returned"
    /\ written = <<>>
    /\ closeCalls > 0
    /\ procState = "exited"

\* C33: every logged line is non-empty and holds no newline and no NUL.
C33_LinesAreCleanAndNonEmpty ==
    \A i \in 1..Len(emitted) :
        /\ emitted[i] # <<>>
        /\ \A j \in 1..Len(emitted[i]) : emitted[i][j] \notin {"\n", NUL}

\* C33 witness: the child wrote a byte and two newlines; the logger logged
\* the one line, read the NUL padding of its buffers, and returned on done
\* with an empty partial line and so without a flush.
C33_Witness ==
    /\ written = <<"a", "\n", "\n">>
    /\ emitted = <<<<"a">>>>
    /\ line = <<>>
    /\ loggerPc = "returned"

\* C34: NewCmdCloser returns a CmdCloser exactly when no step of the spawn
\* failed, and an error otherwise; behind a returned CmdCloser the process was
\* started, so Pid() reads the pid of a started process.
C34_CloserOnlyAfterStart ==
    mgr # "none" =>
        /\ mgr = "ok" <=> spawnFailAt = "none"
        /\ mgr = "failed" <=> spawnFailAt \in SpawnFailures
        /\ mgr = "ok" => (Pid = "pid" /\ procState # "none")
        /\ mgr = "failed" => (procState = "none" /\ watchdogPc = "none")

\* C34 witness: a spawn returned its CmdCloser, Pid() reads a pid, and the
\* process has since exited.
C34_Witness ==
    /\ mgr = "ok"
    /\ Pid = "pid"
    /\ procState = "exited"

\* ------------------------------------------------------------------ claims: documents

\* C2: after N successful Open calls, CloseAll sends exactly N didClose
\* notifications, one per opened document, and its aggregate error names every
\* URI whose close failed.
C2_CloseAllClosesEveryOpened ==
    closeAllCalls > 0 =>
        /\ Len(lastCloseAll.sent) = Len(lastCloseAll.opened)
        /\ \A i \in 1..Len(lastCloseAll.sent) :
              /\ lastCloseAll.sent[i].method = "didClose"
              /\ lastCloseAll.sent[i].uri = lastCloseAll.opened[i]
        /\ lastCloseAll.errs =
              SelectSeq([i \in 1..Len(lastCloseAll.sent) |->
                            IF lastCloseAll.sent[i].ok THEN "" ELSE lastCloseAll.sent[i].uri],
                        LAMBDA u : u # "")

\* C11: CloseAll sends a didClose for every document of the collection, in
\* order, also after an earlier close failed; it returns nil exactly when no
\* close failed, and otherwise its error has one entry per failed document.
C11_CloseAllAttemptsEveryDocument ==
    closeAllCalls > 0 =>
        LET l == lastCloseAll IN
        /\ Len(l.sent) = Len(l.coll)
        /\ \A i \in 1..Len(l.coll) :
              l.sent[i] = [method |-> "didClose", uri |-> l.coll[i], ok |-> i \notin l.failing]
        /\ (l.errs = <<>>) <=> (l.failing = {})
        /\ Len(l.errs) = Cardinality(l.failing)
        /\ l.errs = SelectSeq([i \in 1..Len(l.coll) |->
                                  IF i \in l.failing THEN l.coll[i] ELSE ""],
                              LAMBDA u : u # "")

\* C11 witness: the close of the first of two documents failed and the second
\* was still closed.
C11_Witness ==
    /\ closeAllCalls > 0
    /\ Len(lastCloseAll.coll) = 2
    /\ lastCloseAll.failing = {1}
    /\ Len(lastCloseAll.sent) = 2
    /\ lastCloseAll.sent[2].ok

\* C16: an Open of an unreadable file returns an error and sends nothing; an
\* Open that returns an error leaves the collection's documents as they were;
\* the collection gains a document only in an Open whose didOpen succeeded.
C16_FailedOpenLeavesCollection ==
    [][openCalls' = openCalls + 1 =>
          LET lo == lastOpen' IN
          /\ ~lo.readable => (lo.err # "nil" /\ wire' = wire)
          /\ (lo.readable /\ ~lo.sendOk) => lo.err # "nil"
          /\ lo.err # "nil" => documents' = documents
          /\ documents' # documents =>
                /\ lo.err = "nil"
                /\ wire' = Append(wire, [method |-> "didOpen", uri |-> lo.uri, ok |-> TRUE])]_vars

\* C16 witness: with two documents in the collection, an Open of an unreadable
\* file returned its error.
C16_Witness ==
    /\ lastOpen.err = "read"
    /\ Len(lastOpen.before) = 2
    /\ documents = lastOpen.before

\* The number of didClose notifications in a log.
NumDidClose(log) == Len(SelectSeq(log, LAMBDA m : m.method = "didClose"))

\* C18: every direct Close of the same document sends one didClose for it, a
\* repeated one too, and every CloseAll sends one didClose per document of the
\* collection, which keeps all its documents.
C18_CloseIsNotIdempotent ==
    /\ NumDidClose(wire) = docCloseCalls + closeAllCalls * Len(documents)
    /\ \A u \in URIs :
          Len(SelectSeq(wire, LAMBDA m : m.method = "didClose" /\ m.uri = u))
              = (IF Len(documents) > 0 /\ documents[1] = u THEN docCloseCalls ELSE 0)
                + closeAllCalls * Len(SelectSeq(documents, LAMBDA x : x = u))
    /\ closeAllCalls > 0 => documents = lastCloseAll.coll

\* C18 witness: a one-document collection was closed twice directly and twice
\* by CloseAll: four didClose for the same document.
C18_Witness ==
    /\ Len(documents) = 1
    /\ docCloseCalls = 2
    /\ closeAllCalls = 2
    /\ NumDidClose(wire) = 4

\* C23: every document of the collection has a successful didOpen in the log;
\* the receiver's list gains a document only in an Open whose didOpen was sent
\* and succeeded, and it gains that document; every didClose in the log comes
\* after a successful didOpen of the same URI.
C23_TrackedDocumentsWereOpened ==
    /\ \A i \in 1..Len(documents) :
          \E j \in 1..Len(wire) :
              wire[j] = [method |-> "didOpen", uri |-> documents[i], ok |-> TRUE]
    /\ lastOpen.copy # lastOpen.before =>
          /\ lastOpen.err = "nil"
          /\ lastOpen.copy = Append(lastOpen.before, lastOpen.uri)
          /\ lastOpen.sent = <<[method |-> "didOpen", uri |-> lastOpen.uri, ok |-> TRUE]>>
    /\ \A j \in 1..Len(wire) :
          wire[j].method = "didClose" =>
              \E k \in 1..(j - 1) :
                  wire[k] = [method |-> "didOpen", uri |-> wire[j].uri, ok |-> TRUE]

\* C23 witness: an Open sent its didOpen and then appended the document to its
\* receiver, and CloseAll was called afterwards.
C23_Witness ==
    /\ lastOpen.err = "nil"
    /\ lastOpen.copy = <<lastOpen.uri>>
    /\ wire # <<>>
    /\ closeAllCalls > 0

\* The number of entries of a list of URIs equal to u.
Count(seq, u) == Len(SelectSeq(seq, LAMBDA x : x = u))

\* C17: when no Open is in progress, the collection tracks as many documents
\* as Opens have succeeded.
C17_NoLostOpen ==
    (\A t \in Tasks : opening[t].pc = "idle") => Len(documents) = Len(opened)

\* C20: a URI opened twice is tracked twice, and a CloseAll sends as many
\* didClose for it as it was opened.
C20_SameURITrackedTwice ==
    \A u \in URIs :
        Count(opened, u) >= 2 =>
            /\ Count(documents, u) = Count(opened, u)
            /\ closeAllCalls > 0 =>
                  Len(SelectSeq(lastCloseAll.sent, LAMBDA m : m.uri = u))
                      = Count(lastCloseAll.opened, u)

\* C19: a task whose cancellation fired while it waited for the index leaves
\* the wait, and the handler's publish does not stay blocked either.
C19_CancelledWaitIsAbandoned ==
    /\ \A t \in Tasks : (t \in cancelled /\ task[t] = "recv") ~> (task[t] # "recv")
    /\ (loopPc = "send") ~> (loopPc # "send")

\* C21: Initialize returns a nil result with a non-nil error when the call, the
\* re-marshal or either decode failed, and a non-nil result with a nil error
\* otherwise: never both, never neither.
C21_InitializeResultXorError ==
    initPc = "returned" =>
        LET failed == \/ ~initCall.callOk
                      \/ ~initCall.marshalOk
                      \/ UnmarshalBase(initPayload, ZeroResult).err
                      \/ UnmarshalEmbedded(initPayload, ZeroResult).err
        IN /\ failed => (initRes.nil /\ initErr # "nil")
           /\ ~failed => (~initRes.nil /\ initErr = "nil")

\* C21 witness: the call and the first decode succeeded, the second decode
\* failed, and Initialize returned nil with that error.
C21_Witness ==
    /\ initPc = "returned"
    /\ initCall.callOk /\ initCall.marshalOk
    /\ ~UnmarshalBase(initPayload, ZeroResult).err
    /\ initErr = "embedded"
    /\ initRes.nil

\* ------------------------------------------------------------------ claims: main()

\* The positions in wire of the messages of a method.
Sent(method) == {i \in 1..Len(wire) : wire[i].method = method}

\* The positions in wire of the messages of a method that succeeded.
SentOk(method) == {i \in Sent(method) : wire[i].ok}

\* main() is over: it returned or it ended in logger.Fatal.
MainOver == mainPc \in {"returned", "fatal"}

\* C12: once teardown has begun (CloseAll was called) and main() is over,
\* shutdown and exit have both been sent, whichever teardown step failed.
C12_TeardownRunsToCompletion ==
    (MainOver /\ closeAllCalls > 0) => (Sent("shutdown") # {} /\ Sent("exit") # {})

\* C13: when exit has been sent, a didClose for every opened document came
\* before shutdown, shutdown came before exit, and exit is the last message.
C13_TeardownOrder ==
    Sent("exit") # {} =>
        /\ \A e \in Sent("exit") : e = Len(wire) /\ \E h \in Sent("shutdown") : h < e
        /\ \A k \in 1..Len(opened) :
              \E c \in Sent("didClose") :
                  /\ wire[c].uri = opened[k]
                  /\ \A h \in Sent("shutdown") : c < h

\* The protocol messages that follow the handshake.
LaterMethods == {"didOpen", "workspace/symbol", "didClose", "shutdown", "exit"}

\* C14: every initialized notification follows a successful initialize; every
\* later message follows a successful initialized notification; after a failed
\* initialize or initialized nothing more is sent.
C14_HandshakeOrder ==
    /\ \A i \in Sent("initialized") : \E j \in SentOk("initialize") : j < i
    /\ \A i \in 1..Len(wire) :
          wire[i].method \in LaterMethods => \E j \in SentOk("initialized") : j < i
    /\ \A i \in 1..Len(wire) :
          (wire[i].method \in {"initialize", "initialized"} /\ ~wire[i].ok) => i = Len(wire)
    /\ Cardinality(Sent("initialize")) <= 1 /\ Cardinality(Sent("initialized")) <= 1

\* C14 witness: main() returned, having sent initialize, initialized, didOpen,
\* workspace/symbol, shutdown and exit.
C14_Witness ==
    /\ mainPc = "returned"
    /\ SentOk("initialize") = {1}
    /\ SentOk("initialized") = {2}
    /\ Sent("didOpen") = {3}
    /\ Sent("exit") = {Len(wire)}

\* C15: when the initialize response carries no AST flag, or carries it as
\* false, main() ends in logger.Fatal and neither initialized nor didOpen nor
\* workspace/symbol is sent.
C15_MissingASTAborts ==
    (initPc = "returned" /\ initPayload.ast \in {"absent", "false"}) =>
        /\ mainPc = "fatal"
        /\ Sent("initialized") = {} /\ Sent("didOpen") = {} /\ Sent("workspace/symbol") = {}
        /\ opened = <<>>

\* C15 witness: the response decoded without error, its capabilities carry the
\* workspace-symbol flag and no AST flag, and main() stopped at the capability check.
C15_Witness ==
    /\ initPc = "returned"
    /\ initErr = "nil"
    /\ initPayload.caps = "object"
    /\ initPayload.ast = "absent"
    /\ initPayload.wsp = "true"
    /\ mainPc = "fatal"
    /\ fatalAt = "capabilities"

\* C27: the initialized notification is sent only when the initialize result
\* has the AST flag true and the workspace-symbol-provider capability present
\* and true.
C27_BothCapabilitiesRequired ==
    Sent("initialized") # {} =>
        /\ initRes.ASTProvider
        /\ initRes.WorkspaceSymbolProvider = "true"

\* C28: when main() has returned, Close() was called on the process: Done()
\* has fired and the three streams were closed.
C28_TeardownStopsSupervisor ==
    mainPc = "returned" =>
        /\ closeCalls > 0
        /\ Done
        /\ \A s \in Streams : closeAttempts[s] > 0

\* ------------------------------------------------------------------ claims: notification router

\* A task parked in the receive on BackgroundIndexDone() with no send pending.
WaiterBlocked(t) == task[t] = "recv" /\ loopPc # "send"

\* No task is left that receives, or could still come to receive, from
\* backgroundIndexDone.
NoReceiverLeft == \A t \in Tasks : task[t] \notin {"start", "recv"}

\* C3: the indexing-completion signal is published at most once, however many
\* background-index "end" notifications arrive, and once it is published no
\* waiter on BackgroundIndexDone() blocks, late waiters included.
C3_PublishedOnceForAllWaiters ==
    /\ published <= 1
    /\ (published >= 1 => \A t \in Tasks : ~WaiterBlocked(t))

\* C4: publishing never blocks the handler: HandleLSPMsg is never left at the
\* channel send with nobody to receive, so it always goes on to its reply.
C4_PublishNeverBlocksHandler ==
    ~(loopPc = "send" /\ NoReceiverLeft)

\* C5: a task that did not await the signal is never left with its
\* workspace/symbol call outstanding while the dispatch loop, which would
\* deliver the reply, sits in a publish that nobody will receive.
C5_CallOfNonWaiterGetsReply ==
    \A t \in Tasks :
        ~(/\ task[t] = "calling"
          /\ t \notin received
          /\ loopPc = "send"
          /\ NoReceiverLeft)

\* C6: whenever HandleLSPMsg has returned for a message, whatever its method and
\* whether or not its params decode, it has sent exactly one reply and returned
\* no error.
C6_OneNullReplyPerMessage ==
    handlerRet \in {"nil", "error"} => handlerReplies = 1 /\ handlerRet = "nil"

\* The request's params fail to decode, as the token envelope or as the
\* background-index payload.
Malformed(req) ==
    /\ req.type = "request"
    /\ req.method = MethodProgress
    /\ \/ ~req.envelopeOk
       \/ req.token = ProgressTokenBackgroundIndexProgress /\ ~req.payloadOk

\* C7: a "$/progress" message whose params cannot be decoded does not make the
\* handler return an error, and the dispatch loop keeps running.
C7_MalformedProgressIsDropped ==
    Malformed(cur) => handlerRet # "error" /\ loopPc # "failed"

\* The message is a "$/progress" request with the token "backgroundIndexProgress"
\* and the kind "end".
IsIndexEnd(req) ==
    /\ req.type = "request"
    /\ req.method = "$/progress"
    /\ req.token = "backgroundIndexProgress"
    /\ req.kind = "end"

\* C22: the handler reaches its send on backgroundIndexDone for a message
\* exactly when the message is a "$/progress" request with the token
\* "backgroundIndexProgress" and the kind "end", and a publish happens only
\* while such a message is being handled, once.
C22_PublishIffIndexEnd ==
    [][/\ (inbox # <<>> /\ inbox' = Tail(inbox) /\ Head(inbox).type = "request") =>
             (loopPc' = "send" <=> IsIndexEnd(Head(inbox)))
       /\ published' # published =>
             (IsIndexEnd(cur) /\ loopPc = "send" /\ published' = published + 1)]_vars

\* C22 witness: two messages were read, and the signal was published once,
\* while the end-of-indexing message was handled.
C22_Witness ==
    /\ published = 1
    /\ IsIndexEnd(cur)
    /\ serverSent = 2
    /\ inbox = <<>>

\* C31: a task leaves its receive on BackgroundIndexDone() only in a step in
\* which the handler, handling an end-of-indexing message, completes its send;
\* that step counts one publish and releases no other task.
C31_NoSpuriousCompletion ==
    [][\A t \in Tasks :
          (task[t] = "recv" /\ task'[t] # "recv") =>
              /\ loopPc = "send"
              /\ IsIndexEnd(cur)
              /\ published' = published + 1
              /\ received' = received \cup {t}
              /\ \A u \in Tasks \ {t} : task'[u] = task[u]]_vars

\* C31 witness: two tasks waited, one end-of-indexing message was handled, and
\* it released one of them; the other is still parked.
C31_Witness ==
    /\ published = 1
    /\ Cardinality(received) = 1
    /\ \E t \in Tasks : t \notin received /\ task[t] = "recv"
    /\ loopPc = "read"

\* ------------------------------------------------------------------ claims: initialize

\* The workspaceSymbolProvider value the payload carries.
CarriedWorkspaceSymbolProvider(payload) ==
    IF payload.top = "object" /\ payload.caps = "object" /\ payload.wsp # "absent"
    THEN payload.wsp ELSE "nil"

\* The astProvider flag the payload carries.
CarriedASTProvider(payload) ==
    payload.top = "object" /\ payload.caps = "object" /\ payload.ast = "true"

\* C8: the result Initialize returns holds, from the one payload, both the
\* standard workspace-symbol-provider value and the vendor astProvider flag.
C8_InitializeKeepsBothShapes ==
    (initPc = "returned" /\ initErr = "nil") =>
        /\ ~initRes.nil
        /\ initRes.WorkspaceSymbolProvider = CarriedWorkspaceSymbolProvider(initPayload)
        /\ initRes.ASTProvider = CarriedASTProvider(initPayload)

\* C8 witness: a payload carrying both flags as true came back with both set.
C8_Witness ==
    /\ initPc = "returned"
    /\ initErr = "nil"
    /\ initPayload.ast = "true"
    /\ initPayload.wsp = "true"
    /\ initRes.ASTProvider
    /\ initRes.WorkspaceSymbolProvider = "true"

====
